---- MODULE Spec2Model ----
(***************************************************************************)
(* Model of great_tables/_export.py: the save() method of a GT object.     *)
(*                                                                         *)
(* save() is a straight-line procedure.  Each call is modelled as a        *)
(* process with a program counter; one action per statement (or group of   *)
(* adjacent pure statements) of save().  Several calls may run             *)
(* concurrently in the same Python process, so the state is split into     *)
(*   - process-wide state: the installed packages, PIL's                   *)
(*     Image.MAX_IMAGE_PIXELS, the temp directories and temp files on      *)
(*     disk, the open browser sessions, the output files written, the      *)
(*     geometry of the rendered element in the browser page;               *)
(*   - per-call state: the arguments, the program counter, the frame of    *)
(*     local variables, and the exception in flight (if any).              *)
(*                                                                         *)
(* `scale` is a float in the source.  It is represented in fixed point: a  *)
(* model value v stands for v / ScaleDen.  Everything derived from it by   *)
(* multiplication (zoom level, scaling factor, expansion amount, crop      *)
(* coordinates) is then in the same unit of 1/ScaleDen.                    *)
(***************************************************************************)
EXTENDS Integers, Sequences, FiniteSets, TLC

\* ---------------------------------------------------------------- bounds
NumCalls == 2       \* number of save() calls that may run concurrently
MaxLen   == 4       \* longest file path (in characters) tried
ScaleDen == 4       \* fixed-point denominator for `scale`

\* ------------------------------------------------------- program constants
DefaultExpand == 5  \* expand: int = 5

Calls == 1..NumCalls

None == "None"

\* Characters a path is made of: a letter, the extension dot, the separator.
Chars == {"a", ".", "/"}

PngSuffix == <<".", "p", "n", "g">>

\* The names in the WebDrivers literal type.
WebDrivers == {"chrome", "firefox", "safari", "edge"}

\* Values a caller may pass as web_driver (the annotation is not enforced).
WebDriverInputs == WebDrivers \cup {"opera"}

\* The packages save() needs.
Required == {"selenium", "PIL"}

\* save(scale=1.0) in fixed point.
DefaultScale == 1 * ScaleDen

DefaultFile == <<"a", ".", "p", "n", "g">>

DefaultPage == [x |-> 10, y |-> 20, width |-> 100, height |-> 50]

\* Inputs tried for the crop arithmetic.
Scales  == {ScaleDen \div 2, ScaleDen, 2 * ScaleDen}
Expands == {0, DefaultExpand}
Pages   == [x : {-2, 0, 3, 10}, y : {0, 20}, width : {0, 100}, height : {0, 50}]

\* Inputs tried for the file path.
Paths == UNION {[1..k -> Chars] : k \in 0..MaxLen}

VARIABLES
    installed,          \* packages importable in this process
    MAX_IMAGE_PIXELS,   \* PIL.Image.MAX_IMAGE_PIXELS (module global)
    tempDirs,           \* temp directories on disk, named by the creating call
    tempFiles,          \* temp files on disk, named by the creating call
    sessions,           \* open browser sessions, named by the creating call
    outputs,            \* output files written: [call, path, box]
    page,               \* location and size the browser reports for the element
    args,               \* args[c]: the arguments of call c
    pc,                 \* pc[c]: the statement call c executes next
    local,              \* local[c]: the local variables of call c
    error               \* error[c]: the exception raised in call c, or None

vars == <<installed, MAX_IMAGE_PIXELS, tempDirs, tempFiles, sessions, outputs,
          page, args, pc, local, error>>

\* ------------------------------------------------------------ pure helpers

\* str.split(sep) on a sequence of characters.
RECURSIVE Split(_, _)
Split(s, sep) ==
    IF \A i \in 1..Len(s) : s[i] # sep
    THEN <<s>>
    ELSE LET i == CHOOSE j \in 1..Len(s) :
                     /\ s[j] = sep
                     /\ \A k \in 1..(j - 1) : s[k] # sep
         IN  <<SubSeq(s, 1, i - 1)>> \o Split(SubSeq(s, i + 1, Len(s)), sep)

\* file_extension = file.split(".")[-1]
file_extension(file) ==
    LET parts == Split(file, ".") IN parts[Len(parts)]

\* if len(file_extension) == len(file): file += ".png"
AddPngIfNoExtension(file) ==
    IF Len(file_extension(file)) = Len(file) THEN file \o PngSuffix ELSE file

\* zoom_level = str(scale * 100) + "%"   (the number before the "%")
zoom_level(scale) == scale * 100

\* scaling_factor = scale * 2
scaling_factor(scale) == scale * 2

\* Variant: the margin is not scaled.
expansion_amount_Unscaled(expand, sf) == expand

\* expansion_amount = expand * scaling_factor
expansion_amount(expand, sf) == expand * sf

\* Variant: the left edge is clamped to the image.
crop_left_Clamped(location, sf, e) ==
    IF (location.x * sf) - e < 0 THEN 0 ELSE (location.x * sf) - e

\* left = (location["x"] * scaling_factor) - expansion_amount
crop_left(location, sf, e) == (location.x * sf) - e

\* Variant: the margin is added to the top edge instead of subtracted.
crop_top_SignSlip(location, sf, e) == (location.y * sf) + e

\* top = (location["y"] * scaling_factor) - expansion_amount
crop_top(location, sf, e) == (location.y * sf) - e

\* right = ((location["x"] + size["width"]) * scaling_factor) + expansion_amount
crop_right(location, size, sf, e) == ((location.x + size.width) * sf) + e

\* bottom = ((location["y"] + size["height"]) * scaling_factor) + expansion_amount
crop_bottom(location, size, sf, e) == ((location.y + size.height) * sf) + e

\* The tuple handed to image.crop(): (left, top, right, bottom).
crop_box(location, size, sf, e) ==
    <<crop_left(location, sf, e), crop_top(location, sf, e),
      crop_right(location, size, sf, e), crop_bottom(location, size, sf, e)>>

\* _try_import(name=..., pip_install_line=...): TRUE when the import works,
\* otherwise the call raises ImportError with the install instruction.
try_import(name) == name \in installed

\* ------------------------------------------------------------- the frame

EmptyFrame ==
    [file |-> None, html_content |-> None, wdriver |-> None,
     wd_options |-> None, zoom_level |-> None, scaling_factor |-> None,
     expansion_amount |-> None, location |-> None, size |-> None,
     png |-> None, image |-> None, crop_box |-> None]

\* The statements of save(), in program order.
PcOrder ==
    <<"import", "set_cap", "extension", "html", "mkdtemp", "select_driver",
      "options", "temp_file", "launch", "write_html", "navigate", "zoom",
      "find_element", "screenshot", "exit_browser", "exit_temp_file",
      "open_image", "crop", "save", "done">>

Rank(p) == IF p = "idle" THEN 0
           ELSE IF p = "failed" THEN Len(PcOrder) + 1
           ELSE CHOOSE i \in 1..Len(PcOrder) : PcOrder[i] = p

Ended(c) == pc[c] \in {"done", "failed"}

\* An exception leaves save(): the frame is discarded.
Raise(c, exc) ==
    /\ pc' = [pc EXCEPT ![c] = "failed"]
    /\ error' = [error EXCEPT ![c] = exc]
    /\ local' = [local EXCEPT ![c] = EmptyFrame]

\* An exception inside the body of the `with`: both context managers exit
\* (browser first, then temp file) before the exception leaves save().
RaiseInWith(c, exc) ==
    /\ pc' = [pc EXCEPT ![c] = "exit_browser"]
    /\ error' = [error EXCEPT ![c] = exc]
    /\ UNCHANGED local

Goto(c, p) == pc' = [pc EXCEPT ![c] = p]

\* ------------------------------------------------------------- the steps

\* Variant: the dependency check does not stop the call.
ImportPackages_NoCheck(c) ==
    /\ pc[c] = "import"
    /\ Goto(c, "set_cap")
    /\ UNCHANGED <<installed, MAX_IMAGE_PIXELS, tempDirs, tempFiles, sessions,
                   outputs, page, args, error, local>>

\* _try_import(name="selenium", ...); _try_import(name="PIL", ...)
ImportPackages(c) ==
    /\ pc[c] = "import"
    /\ IF try_import("selenium") /\ try_import("PIL")
       THEN Goto(c, "set_cap") /\ UNCHANGED <<error, local>>
       ELSE Raise(c, "ImportError")
    /\ UNCHANGED <<installed, MAX_IMAGE_PIXELS, tempDirs, tempFiles, sessions,
                   outputs, page, args>>

\* Image.MAX_IMAGE_PIXELS = None
SetMaxImagePixels(c) ==
    /\ pc[c] = "set_cap"
    /\ MAX_IMAGE_PIXELS' = None
    /\ Goto(c, "extension")
    /\ UNCHANGED <<installed, tempDirs, tempFiles, sessions, outputs, page,
                   args, local, error>>

\* file_extension = file.split(".")[-1]; if ...: file += ".png"
FileExtension(c) ==
    /\ pc[c] = "extension"
    /\ local' = [local EXCEPT ![c].file = AddPngIfNoExtension(args[c].file)]
    /\ Goto(c, "html")
    /\ UNCHANGED <<installed, MAX_IMAGE_PIXELS, tempDirs, tempFiles, sessions,
                   outputs, page, args, error>>

\* html_content = as_raw_html(self)
RenderHtml(c) ==
    /\ pc[c] = "html"
    /\ \E ok \in BOOLEAN :
         IF ok
         THEN /\ local' = [local EXCEPT ![c].html_content = "html"]
              /\ Goto(c, "mkdtemp")
              /\ UNCHANGED error
         ELSE Raise(c, "RenderError")
    /\ UNCHANGED <<installed, MAX_IMAGE_PIXELS, tempDirs, tempFiles, sessions,
                   outputs, page, args>>

\* temp_dir = tempfile.mkdtemp()
MkDtemp(c) ==
    /\ pc[c] = "mkdtemp"
    /\ \E ok \in BOOLEAN :
         IF ok
         THEN /\ tempDirs' = tempDirs \cup {c}
              /\ Goto(c, "select_driver")
              /\ UNCHANGED <<error, local>>
         ELSE Raise(c, "OSError") /\ UNCHANGED tempDirs
    /\ UNCHANGED <<installed, MAX_IMAGE_PIXELS, tempFiles, sessions, outputs,
                   page, args>>

\* if web_driver == "chrome": ... elif "safari" ... "firefox" ... "edge" ...
\* (no else branch: any other value binds neither wdriver nor wd_options)
SelectDriver(c) ==
    /\ pc[c] = "select_driver"
    /\ local' = IF args[c].web_driver \in {"chrome", "safari", "firefox", "edge"}
                THEN [local EXCEPT ![c].wdriver = args[c].web_driver,
                                   ![c].wd_options = <<>>]
                ELSE local
    /\ Goto(c, "options")
    /\ UNCHANGED <<installed, MAX_IMAGE_PIXELS, tempDirs, tempFiles, sessions,
                   outputs, page, args, error>>

\* if web_driver != "firefox": wd_options.add_argument("--headless")
\* wd_options.add_argument("--width=..."); wd_options.add_argument("--height=...")
AddOptions(c) ==
    /\ pc[c] = "options"
    /\ IF local[c].wd_options = None
       THEN Raise(c, "UnboundLocalError")
       ELSE /\ local' = [local EXCEPT ![c].wd_options =
                  (IF args[c].web_driver # "firefox"
                   THEN <<"--headless">> ELSE <<>>) \o <<"--width", "--height">>]
            /\ Goto(c, "temp_file")
            /\ UNCHANGED error
    /\ UNCHANGED <<installed, MAX_IMAGE_PIXELS, tempDirs, tempFiles, sessions,
                   outputs, page, args>>

\* with tempfile.NamedTemporaryFile(suffix=".html", dir=temp_dir) as temp_file
EnterTempFile(c) ==
    /\ pc[c] = "temp_file"
    /\ \E ok \in BOOLEAN :
         IF ok
         THEN /\ tempFiles' = tempFiles \cup {c}
              /\ Goto(c, "launch")
              /\ UNCHANGED <<error, local>>
         ELSE Raise(c, "OSError") /\ UNCHANGED tempFiles
    /\ UNCHANGED <<installed, MAX_IMAGE_PIXELS, tempDirs, sessions, outputs,
                   page, args>>

\* with ..., wdriver(options=wd_options) as headless_browser
\* A failing constructor exits the temp file's context only.
LaunchBrowser(c) ==
    /\ pc[c] = "launch"
    /\ \E ok \in BOOLEAN :
         IF ok
         THEN /\ sessions' = sessions \cup {c}
              /\ Goto(c, "write_html")
              /\ UNCHANGED error
         ELSE /\ Goto(c, "exit_temp_file")
              /\ error' = [error EXCEPT ![c] = "WebDriverException"]
              /\ UNCHANGED sessions
    /\ UNCHANGED <<installed, MAX_IMAGE_PIXELS, tempDirs, tempFiles, outputs,
                   page, args, local>>

\* with open(temp_file.name, "w") as fp: fp.write(html_content)
WriteHtml(c) ==
    /\ pc[c] = "write_html"
    /\ \E ok \in BOOLEAN :
         IF ok
         THEN Goto(c, "navigate") /\ UNCHANGED <<error, local>>
         ELSE RaiseInWith(c, "OSError")
    /\ UNCHANGED <<installed, MAX_IMAGE_PIXELS, tempDirs, tempFiles, sessions,
                   outputs, page, args>>

\* zoom_level = ...; scaling_factor = ...; expansion_amount = ...
\* headless_browser.get("file://" + temp_file.name)
Navigate(c) ==
    /\ pc[c] = "navigate"
    /\ \E ok \in BOOLEAN :
         LET sf == scaling_factor(args[c].scale)
             fr == [local[c] EXCEPT
                      !.zoom_level = zoom_level(args[c].scale),
                      !.scaling_factor = sf,
                      !.expansion_amount = expansion_amount(args[c].expand, sf)]
         IN  /\ local' = [local EXCEPT ![c] = fr]
             /\ IF ok
                THEN Goto(c, "zoom") /\ UNCHANGED error
                ELSE /\ Goto(c, "exit_browser")
                     /\ error' = [error EXCEPT ![c] = "WebDriverException"]
    /\ UNCHANGED <<installed, MAX_IMAGE_PIXELS, tempDirs, tempFiles, sessions,
                   outputs, page, args>>

\* headless_browser.execute_script(f"document.body.style.zoom = '{zoom_level}'")
ExecuteScript(c) ==
    /\ pc[c] = "zoom"
    /\ \E ok \in BOOLEAN :
         IF ok
         THEN Goto(c, "find_element") /\ UNCHANGED <<error, local>>
         ELSE RaiseInWith(c, "JavascriptException")
    /\ UNCHANGED <<installed, MAX_IMAGE_PIXELS, tempDirs, tempFiles, sessions,
                   outputs, page, args>>

\* Variant: a failed element lookup reloads the page and tries again.
FindElement_Retry(c) ==
    /\ pc[c] = "find_element"
    /\ \E ok \in BOOLEAN :
         IF ok
         THEN /\ local' = [local EXCEPT
                    ![c].location = [x |-> page.x, y |-> page.y],
                    ![c].size = [width |-> page.width, height |-> page.height]]
              /\ Goto(c, "screenshot")
         ELSE Goto(c, "navigate") /\ UNCHANGED local
    /\ UNCHANGED <<installed, MAX_IMAGE_PIXELS, tempDirs, tempFiles, sessions,
                   outputs, page, args, error>>

\* element = headless_browser.find_element(by=By.TAG_NAME, value=selector)
\* location = element.location; size = element.size
FindElement(c) ==
    /\ pc[c] = "find_element"
    /\ \E ok \in BOOLEAN :
         IF ok
         THEN /\ local' = [local EXCEPT
                    ![c].location = [x |-> page.x, y |-> page.y],
                    ![c].size = [width |-> page.width, height |-> page.height]]
              /\ Goto(c, "screenshot")
              /\ UNCHANGED error
         ELSE RaiseInWith(c, "NoSuchElementException")
    /\ UNCHANGED <<installed, MAX_IMAGE_PIXELS, tempDirs, tempFiles, sessions,
                   outputs, page, args>>

\* png = headless_browser.get_screenshot_as_png()
Screenshot(c) ==
    /\ pc[c] = "screenshot"
    /\ \E ok \in BOOLEAN :
         IF ok
         THEN /\ local' = [local EXCEPT ![c].png = "png"]
              /\ Goto(c, "exit_browser")
              /\ UNCHANGED error
         ELSE RaiseInWith(c, "WebDriverException")
    /\ UNCHANGED <<installed, MAX_IMAGE_PIXELS, tempDirs, tempFiles, sessions,
                   outputs, page, args>>

\* Variant: the session is quit on the normal path only.
ExitBrowser_KeepOnError(c) ==
    /\ pc[c] = "exit_browser"
    /\ sessions' = IF error[c] = None THEN sessions \ {c} ELSE sessions
    /\ Goto(c, "exit_temp_file")
    /\ UNCHANGED <<installed, MAX_IMAGE_PIXELS, tempDirs, tempFiles, outputs,
                   page, args, local, error>>

\* Leaving the `with`: headless_browser.__exit__ quits the session, on the
\* normal path and on the exceptional one alike.
ExitBrowser(c) ==
    /\ pc[c] = "exit_browser"
    /\ sessions' = sessions \ {c}
    /\ Goto(c, "exit_temp_file")
    /\ UNCHANGED <<installed, MAX_IMAGE_PIXELS, tempDirs, tempFiles, outputs,
                   page, args, local, error>>

\* Leaving the `with`: temp_file.__exit__ closes and deletes the temp file.
\* The temp directory made by mkdtemp() is not removed by anything.
ExitTempFile(c) ==
    /\ pc[c] = "exit_temp_file"
    /\ tempFiles' = tempFiles \ {c}
    /\ IF error[c] = None
       THEN Goto(c, "open_image") /\ UNCHANGED local
       ELSE /\ Goto(c, "failed")
            /\ local' = [local EXCEPT ![c] = EmptyFrame]
    /\ UNCHANGED <<installed, MAX_IMAGE_PIXELS, tempDirs, sessions, outputs,
                   page, args, error>>

\* image = Image.open(fp=BytesIO(png))
OpenImage(c) ==
    /\ pc[c] = "open_image"
    /\ \E ok \in BOOLEAN :
         IF ok
         THEN /\ local' = [local EXCEPT ![c].image = "screenshot"]
              /\ Goto(c, "crop")
              /\ UNCHANGED error
         ELSE Raise(c, "ImageError")
    /\ UNCHANGED <<installed, MAX_IMAGE_PIXELS, tempDirs, tempFiles, sessions,
                   outputs, page, args>>

\* left = ...; top = ...; right = ...; bottom = ...
\* image = image.crop((left, top, right, bottom))
Crop(c) ==
    /\ pc[c] = "crop"
    /\ \E ok \in BOOLEAN :
         IF ok
         THEN /\ local' = [local EXCEPT
                    ![c].crop_box = crop_box(local[c].location, local[c].size,
                                             local[c].scaling_factor,
                                             local[c].expansion_amount),
                    ![c].image = "cropped"]
              /\ Goto(c, "save")
              /\ UNCHANGED error
         ELSE Raise(c, "ImageError")
    /\ UNCHANGED <<installed, MAX_IMAGE_PIXELS, tempDirs, tempFiles, sessions,
                   outputs, page, args>>

\* image.save(fp=file)
SaveImage(c) ==
    /\ pc[c] = "save"
    /\ \E ok \in BOOLEAN :
         IF ok
         THEN /\ outputs' = outputs \cup
                    {[call |-> c, path |-> local[c].file,
                      box |-> local[c].crop_box]}
              /\ Goto(c, "done")
              /\ local' = [local EXCEPT ![c] = EmptyFrame]
              /\ UNCHANGED error
         ELSE Raise(c, "ImageError") /\ UNCHANGED outputs
    /\ UNCHANGED <<installed, MAX_IMAGE_PIXELS, tempDirs, tempFiles, sessions,
                   page, args>>

Next ==
    \E c \in Calls :
        \/ ImportPackages(c)
        \/ SetMaxImagePixels(c)
        \/ FileExtension(c)
        \/ RenderHtml(c)
        \/ MkDtemp(c)
        \/ SelectDriver(c)
        \/ AddOptions(c)
        \/ EnterTempFile(c)
        \/ LaunchBrowser(c)
        \/ WriteHtml(c)
        \/ Navigate(c)
        \/ ExecuteScript(c)
        \/ FindElement(c)
        \/ Screenshot(c)
        \/ ExitBrowser(c)
        \/ ExitTempFile(c)
        \/ OpenImage(c)
        \/ Crop(c)
        \/ SaveImage(c)

\* ------------------------------------------------------- initial states

\* The process before any save() statement has run: nothing on disk, no
\* session, PIL's pixel cap at its default.
InitProcess ==
    /\ installed \in SUBSET Required
    /\ MAX_IMAGE_PIXELS = "default"
    /\ tempDirs = {}
    /\ tempFiles = {}
    /\ sessions = {}
    /\ outputs = {}
    /\ local = [c \in Calls |-> EmptyFrame]
    /\ error = [c \in Calls |-> None]

\* save(file, selector="table", scale=1.0, expand=5, web_driver="chrome", ...)
SaveArgs(file, scale, expand, web_driver) ==
    [file |-> file, scale |-> scale, expand |-> expand,
     web_driver |-> web_driver]

\* Concurrent calls, each with any web_driver value.
Init ==
    /\ InitProcess
    /\ page = DefaultPage
    /\ pc = [c \in Calls |-> "import"]
    /\ \E wd \in [Calls -> WebDriverInputs] :
         args = [c \in Calls |->
                   SaveArgs(DefaultFile, DefaultScale, DefaultExpand, wd[c])]

Spec == Init /\ [][Next]_vars

\* One call, any file path.
InitPath ==
    /\ InitProcess
    /\ page = DefaultPage
    /\ pc = [c \in Calls |-> IF c = 1 THEN "import" ELSE "idle"]
    /\ \E f \in Paths, wd \in WebDriverInputs :
         args = [c \in Calls |->
                   SaveArgs(f, DefaultScale, DefaultExpand, wd)]

SpecPath == InitPath /\ [][Next]_vars

\* One call, any scale, expand and element geometry.
InitCrop ==
    /\ InitProcess
    /\ page \in Pages
    /\ pc = [c \in Calls |-> IF c = 1 THEN "import" ELSE "idle"]
    /\ \E s \in Scales, e \in Expands, wd \in WebDriverInputs :
         args = [c \in Calls |-> SaveArgs(DefaultFile, s, e, wd)]

SpecCrop == InitCrop /\ [][Next]_vars

TypeOK ==
    /\ installed \subseteq Required
    /\ MAX_IMAGE_PIXELS \in {"default", None}
    /\ tempDirs \subseteq Calls
    /\ tempFiles \subseteq Calls
    /\ sessions \subseteq Calls
    /\ \A c \in Calls : Rank(pc[c]) \in 0..(Len(PcOrder) + 1)

\* ------------------------------------------------------------ properties

OutputsOf(c) == {o \in outputs : o.call = c}

Unsupported(c) == args[c].web_driver \notin WebDrivers

\* C1: when a save() call has ended (returned or raised), neither its temp
\* HTML file nor its temp directory exists any more.
C1_TempFileAndDirDeleted ==
    \A c \in Calls : Ended(c) => (c \notin tempFiles /\ c \notin tempDirs)

\* C2: a browser session is open only while its call is inside the body of
\* the `with`; once the call has ended the session is closed, and a call
\* that failed carries the exception that was raised.
C2_SessionClosedOnExit ==
    \A c \in Calls :
        /\ c \in sessions =>
              /\ Rank(pc[c]) >= Rank("write_html")
              /\ Rank(pc[c]) <= Rank("exit_browser")
        /\ Ended(c) => c \notin sessions
        /\ pc[c] = "failed" => error[c] # None
        /\ pc[c] = "done" => error[c] = None

\* A call failed inside the session (element lookup or script execution)
\* and has ended with the session closed.
C2_Witness ==
    \E c \in Calls :
        /\ pc[c] = "failed"
        /\ error[c] \in {"NoSuchElementException", "JavascriptException"}
        /\ c \notin sessions

\* The last path component: what follows the last "/".
FileName(path) == LET parts == Split(path, "/") IN parts[Len(parts)]

HasDot(s) == \E i \in 1..Len(s) : s[i] = "."

\* C3: the path the output is written to is the given path with ".png"
\* appended when the file name (last path component) has no ".", and the
\* given path unchanged otherwise.
C3_PngAppendedIffNoExtension ==
    \A o \in outputs :
        LET f == args[o.call].file
        IN  o.path = IF HasDot(FileName(f)) THEN f ELSE f \o PngSuffix

\* The rectangle of claim C4, written out from the arguments and the
\* element's geometry: s = scale*2, e = expand*s.
ExpectedBox(a, pg) ==
    LET s == a.scale * 2
        e == a.expand * s
    IN  <<pg.x * s - e, pg.y * s - e,
          (pg.x + pg.width) * s + e, (pg.y + pg.height) * s + e>>

\* The arguments and geometry of the worked example: x=10, y=20, width=100,
\* height=50, scale=1, expand=5.
IsExample(a, pg) ==
    /\ a.scale = 1 * ScaleDen
    /\ a.expand = 5
    /\ pg = [x |-> 10, y |-> 20, width |-> 100, height |-> 50]

\* A rectangle given in pixels, in the model's fixed-point unit.
Pixels(l, t, r, b) == <<l * ScaleDen, t * ScaleDen, r * ScaleDen, b * ScaleDen>>

\* C4 as stated: the rectangle handed to crop, and recorded with the output,
\* is (x*s - e, y*s - e, (x+width)*s + e, (y+height)*s + e) with s = scale*2
\* and e = expand*s, unclamped; for x=10, y=20, width=100, height=50, scale=1,
\* expand=5 it is (10, 30, 230, 160).
C4_CropRectangleAsStated ==
    /\ \A c \in Calls :
          pc[c] = "save" => local[c].crop_box = ExpectedBox(args[c], page)
    /\ \A o \in outputs :
          /\ o.box = ExpectedBox(args[o.call], page)
          /\ IsExample(args[o.call], page) => o.box = Pixels(10, 30, 230, 160)

\* C4 amended: the same rectangle, unclamped; for the worked example it is
\* (10, 30, 230, 150).
C4_CropRectangle ==
    /\ \A c \in Calls :
          pc[c] = "save" => local[c].crop_box = ExpectedBox(args[c], page)
    /\ \A o \in outputs :
          /\ o.box = ExpectedBox(args[o.call], page)
          /\ IsExample(args[o.call], page) => o.box = Pixels(10, 30, 230, 150)

\* The worked example has been cropped and saved.
C4_Witness ==
    \E o \in outputs :
        /\ IsExample(args[o.call], page)
        /\ o.box = Pixels(10, 30, 230, 150)

\* C5: a call with an unsupported web_driver creates no temp directory, no
\* temp file and no browser session, never gets past driver selection, and
\* does not fail with an unbound-variable error.
C5_UnsupportedDriverFailsFast ==
    \A c \in Calls :
        Unsupported(c) =>
            /\ c \notin tempDirs
            /\ c \notin tempFiles
            /\ c \notin sessions
            /\ error[c] # "UnboundLocalError"
            /\ pc[c] = "failed" \/ Rank(pc[c]) <= Rank("select_driver")

\* C6: when selenium or PIL is missing, a call is either still at the
\* dependency check or has failed there with the import error, and nothing
\* else has happened: no local bound, no temp directory or file, no
\* session, the pixel cap untouched, no output.
C6_DependencyCheckFirst ==
    ~(Required \subseteq installed) =>
        /\ MAX_IMAGE_PIXELS = "default"
        /\ \A c \in Calls :
              /\ pc[c] \in {"idle", "import", "failed"}
              /\ pc[c] = "failed" => error[c] = "ImportError"
              /\ local[c] = EmptyFrame
              /\ c \notin tempDirs
              /\ c \notin tempFiles
              /\ c \notin sessions
              /\ OutputsOf(c) = {}

\* A call has failed at the dependency check.
C6_Witness ==
    \E c \in Calls :
        /\ ~(Required \subseteq installed)
        /\ pc[c] = "failed"
        /\ error[c] = "ImportError"

\* Call c has executed `Image.MAX_IMAGE_PIXELS = None`.
WroteCap(c) ==
    \/ Rank(pc[c]) > Rank("set_cap") /\ pc[c] # "failed"
    \/ pc[c] = "failed" /\ error[c] # "ImportError"

\* C7: concurrent calls share no mutable state: no two calls write the same
\* variable, each call's temp directory, temp file and session are its own,
\* and once all calls have ended the process-wide state is what it was
\* before them.
C7_NoSharedMutableState ==
    /\ \A c, d \in Calls : (c # d /\ WroteCap(c)) => ~WroteCap(d)
    /\ (\A c \in Calls : Ended(c)) => MAX_IMAGE_PIXELS = "default"

Span(b) == <<b[3] - b[1], b[4] - b[2]>>

\* Twice the center point (left+right, top+bottom).
Center2(b) == <<b[1] + b[3], b[2] + b[4]>>

Twice(p) == <<2 * p[1], 2 * p[2]>>

\* The rectangle save() computes for the element at twice the scale.
BoxAtDoubleScale(c) ==
    LET sf == scaling_factor(2 * args[c].scale)
    IN  crop_box(local[c].location, local[c].size, sf,
                 expansion_amount(args[c].expand, sf))

\* C8 as stated: doubling scale doubles the scaling factor and the span of
\* the crop rectangle, and leaves its center point unchanged.
C8_CenterUnchanged ==
    \A c \in Calls :
        pc[c] = "save" =>
            /\ scaling_factor(2 * args[c].scale) = 2 * local[c].scaling_factor
            /\ Span(BoxAtDoubleScale(c)) = Twice(Span(local[c].crop_box))
            /\ Center2(BoxAtDoubleScale(c)) = Center2(local[c].crop_box)

\* C8 amended: doubling scale doubles the scaling factor, the span of the
\* crop rectangle and the coordinates of its center point.
C8_DoublingScale ==
    \A c \in Calls :
        pc[c] = "save" =>
            /\ scaling_factor(2 * args[c].scale) = 2 * local[c].scaling_factor
            /\ Span(BoxAtDoubleScale(c)) = Twice(Span(local[c].crop_box))
            /\ Center2(BoxAtDoubleScale(c)) = Twice(Center2(local[c].crop_box))

\* A rectangle has been computed whose center is not the origin, with a
\* positive margin.
C8_Witness ==
    \E c \in Calls :
        /\ pc[c] = "save"
        /\ args[c].expand > 0
        /\ Center2(local[c].crop_box)[1] # 0
        /\ Center2(local[c].crop_box)[2] # 0

\* C9: every step of a call moves it forward in program order, one
\* statement at a time while no exception is in flight; the output file is
\* written only by the last statement of a call with no exception, no open
\* session and no temp file, and a failed call has written no output.
C9_Step ==
    /\ \A c \in Calls :
          pc'[c] # pc[c] =>
              /\ Rank(pc'[c]) > Rank(pc[c])
              /\ error'[c] = None => Rank(pc'[c]) = Rank(pc[c]) + 1
              /\ error[c] # None => error'[c] = error[c]
    /\ outputs' # outputs =>
          \E c \in Calls :
              /\ pc[c] = "save" /\ pc'[c] = "done"
              /\ error'[c] = None
              /\ c \notin sessions /\ c \notin tempFiles
              /\ Cardinality(outputs') = Cardinality(outputs) + 1
    /\ \A c \in Calls :
          /\ pc'[c] = "failed" => OutputsOf(c)' = {}
          /\ pc'[c] # "done" => OutputsOf(c)' = {}

C9_LinearPipeline == [][C9_Step]_vars

\* One call has completed and written its output while another has failed
\* after launching its browser and written nothing.
C9_Witness ==
    \E c, d \in Calls :
        /\ pc[c] = "done" /\ OutputsOf(c) # {}
        /\ pc[d] = "failed" /\ error[d] = "NoSuchElementException"
        /\ OutputsOf(d) = {}

\* C10: for scale > 0, expand >= 0, width >= 0, height >= 0 the crop
\* rectangle is well-formed and contains the element's scaled bounding box;
\* when x < expand or y < expand its left or top coordinate is negative, and
\* that is the rectangle handed to crop.
C10_CropWellFormed ==
    \A c \in Calls :
        (/\ pc[c] = "save"
         /\ args[c].scale > 0 /\ args[c].expand >= 0
         /\ page.width >= 0 /\ page.height >= 0) =>
            LET b == local[c].crop_box
                s == args[c].scale * 2
            IN  /\ b[1] <= b[3] /\ b[2] <= b[4]
                /\ b[1] <= page.x * s /\ (page.x + page.width) * s <= b[3]
                /\ b[2] <= page.y * s /\ (page.y + page.height) * s <= b[4]
                /\ (page.x < args[c].expand \/ page.y < args[c].expand)
                      => (b[1] < 0 \/ b[2] < 0)

\* A rectangle with a positive margin and a negative left coordinate has
\* been handed to crop.
C10_Witness ==
    \E c \in Calls :
        /\ pc[c] = "save"
        /\ args[c].expand > 0
        /\ page.x < args[c].expand
        /\ local[c].crop_box[1] < 0
====
